---- MODULE Spec2Model ----
(***************************************************************************)
(* The synthetic Jira data generator of the SAFe PI dashboard              *)
(* (src/test_data_generator.py, class JiraTestDataGenerator) as a state    *)
(* machine: one action per loop iteration of generate_issues,              *)
(* generate_changelog and generate_issue_links, run in the order of        *)
(* create_test_database.                                                   *)
(*                                                                         *)
(* Dates are day numbers (1 = 2024-01-01); every datetime of the program   *)
(* is at midnight, so (a - b).days is the difference of day numbers.       *)
(* Strings are strings: labels are the joined label string, and the        *)
(* substring tests, split and replace of the code are computed on it.      *)
(*                                                                         *)
(* The two process-wide random generators (random and numpy.random) are    *)
(* deterministic generators whose state is part of the model.  Their       *)
(* algorithm is library code; a 16-bit linear congruential generator       *)
(* stands in for it.  Every draw advances the state by one step and maps   *)
(* the new state to the range of the call.                                 *)
(***************************************************************************)
EXTENDS Integers, Sequences, FiniteSets, TLC

VARIABLES
    seed,          \* the seed given to JiraTestDataGenerator(seed)
    counts,        \* <<num_features, num_stories, num_bugs, num_tasks>>
    rng,           \* state of the random module's generator (process-wide)
    nprng,         \* state of numpy.random's generator (process-wide)
    pc,            \* "issues", "changelog", "links", "done" or "error"
    issues,        \* generate_issues: the list of issue dicts built so far
    issue_index,   \* generate_issues: the running key index
    issues_df,     \* the DataFrame generate_issues returned
    cursor,        \* row the changelog loop / the link loops are at
    changelog,     \* generate_changelog: the entries emitted so far
    links,         \* generate_issue_links: the links emitted so far
    run,           \* 1 for the first generation run, 2 for the second
    fresh,         \* run 2 only: it was started from a newly constructed generator
    first          \* the tables the first run produced (<<>> until a second run starts)

vars == <<seed, counts, rng, nprng, pc, issues, issue_index, issues_df,
          cursor, changelog, links, run, fresh, first>>

---------------------------------------------------------------------------
(* Bounds of the model *)

MaxSeed == 49
MaxFeatures == 2
MaxStories == 1
MaxBugs == 1
MaxTasks == 1

---------------------------------------------------------------------------
(* Null values.  None is Python's None in a numeric or datetime field; NaT *)
(* is what pandas stores for None in a datetime column that holds at least *)
(* one datetime (NaN likewise in a numeric column).  NaT is truthy, None   *)
(* is not.  NoneStr is None in a string-valued field.                      *)

None == -1
NaT == -2
NaN == -3
NoneStr == ""

IsNull(x) == x \in {None, NaT, NaN}
Truthy(x) == x # None

Min(a, b) == IF a < b THEN a ELSE b
Max(a, b) == IF a > b THEN a ELSE b

---------------------------------------------------------------------------
(* Strings *)

StartsWith(s, p) == Len(s) >= Len(p) /\ SubSeq(s, 1, Len(p)) = p

\* Index of the first occurrence of needle in s, 0 when there is none.
Find(s, needle) ==
    LET n == Len(needle)
        hits == {i \in 1..(Len(s) - n + 1) : SubSeq(s, i, i + n - 1) = needle}
    IN IF hits = {} THEN 0 ELSE CHOOSE i \in hits : \A j \in hits : i <= j

\* needle in s  /  Series.str.contains(needle) for a needle without regex
\* metacharacters
Contains(s, needle) == Find(s, needle) # 0

RECURSIVE Split(_, _)
Split(s, sep) ==
    LET i == Find(s, sep)
    IN IF i = 0 THEN <<s>>
       ELSE <<SubSeq(s, 1, i - 1)>> \o Split(SubSeq(s, i + Len(sep), Len(s)), sep)

RECURSIVE Replace(_, _, _)
Replace(s, old, new) ==
    LET i == Find(s, old)
    IN IF i = 0 THEN s
       ELSE SubSeq(s, 1, i - 1) \o new
            \o Replace(SubSeq(s, i + Len(old), Len(s)), old, new)

RECURSIVE Join(_, _)
Join(parts, sep) ==
    IF Len(parts) = 0 THEN ""
    ELSE IF Len(parts) = 1 THEN parts[1]
    ELSE parts[1] \o sep \o Join(Tail(parts), sep)

\* Pad4 as f"{index:03d}" would be
Pad4_Width3(index) ==
    IF index < 10 THEN "00" \o ToString(index)
    ELSE IF index < 100 THEN "0" \o ToString(index)
    ELSE ToString(index)

\* f"{index:04d}"
Pad4(index) ==
    IF index < 10 THEN "000" \o ToString(index)
    ELSE IF index < 100 THEN "00" \o ToString(index)
    ELSE IF index < 1000 THEN "0" \o ToString(index)
    ELSE ToString(index)

\* str.lower() on the ART names
Lower(art) ==
    CASE art = "Platform" -> "platform"
      [] art = "Commerce" -> "commerce"
      [] art = "Analytics" -> "analytics"
      [] art = "Mobile" -> "mobile"
      [] OTHER -> art

---------------------------------------------------------------------------
(* Configuration set by __init__ *)

pis == <<"PI-2024-Q2", "PI-2024-Q3", "PI-2024-Q4">>
arts == <<"Platform", "Commerce", "Analytics", "Mobile">>
workstreams == <<"Team-Alpha", "Team-Beta", "Team-Gamma", "Team-Delta",
                 "Team-Echo", "Team-Foxtrot", "Team-Golf", "Team-Hotel">>
statuses == <<"To Do", "In Progress", "In Review", "Done", "Blocked">>
issue_types == <<"Feature", "Story", "Bug", "Task", "Sub-task">>
priorities == <<"Critical", "High", "Medium", "Low">>

MonthDays == <<31, 29, 31, 30, 31, 30, 31, 31, 30, 31, 30, 31>>

RECURSIVE DaysBefore(_)
DaysBefore(month) == IF month = 1 THEN 0 ELSE MonthDays[month - 1] + DaysBefore(month - 1)

\* datetime(2024, month, day) as a day number
Date(month, day) == DaysBefore(month) + day

pi_dates(pi) ==
    CASE pi = "PI-2024-Q2" -> <<Date(4, 1), Date(6, 30)>>
      [] pi = "PI-2024-Q3" -> <<Date(7, 1), Date(9, 30)>>
      [] pi = "PI-2024-Q4" -> <<Date(10, 1), Date(12, 31)>>

---------------------------------------------------------------------------
(* The random generators *)

RngMod == 65536
RngMul == 25173
RngInc == 13849
NpInc == 24691

\* random.seed(seed), np.random.seed(seed)
SeedRandom(s) == s % RngMod
SeedNumpy(s) == s % RngMod

\* one draw of the random module: the state after it
Step(s) == (s * RngMul + RngInc) % RngMod
\* one draw of numpy.random
NpStep(s) == (s * RngMul + NpInc) % RngMod

\* random.random() < pct / 100, drawn in state s
Chance(s, pct) == Step(s) * 100 < pct * RngMod
\* random.randint(a, b), drawn in state s
RandInt(s, a, b) == a + (Step(s) * (b - a + 1)) \div RngMod
\* random.choice(seq), drawn in state s
Choice(s, seq) == seq[1 + (Step(s) * Len(seq)) \div RngMod]

RECURSIVE SumTo(_, _)
SumTo(weights, i) == IF i = 0 THEN 0 ELSE weights[i] + SumTo(weights, i - 1)

\* random.choices(population, weights=weights)[0], drawn in state s:
\* bisect of random() * total in the cumulative weights
Choices(s, population, weights) ==
    LET n == Len(population)
        total == SumTo(weights, n)
        hit == {i \in 1..n : SumTo(weights, i) * RngMod > Step(s) * total}
    IN population[IF hit = {} THEN n ELSE CHOOSE i \in hit : \A j \in hit : i <= j]

---------------------------------------------------------------------------
(* generate_issue_key *)

prefixes(issue_type) ==
    CASE issue_type = "Feature" -> "FEAT"
      [] issue_type = "Story" -> "STORY"
      [] issue_type = "Bug" -> "BUG"
      [] issue_type = "Task" -> "TASK"
      [] issue_type = "Sub-task" -> "SUB"
      [] OTHER -> "ISSUE"

\* generate_issue_key numbering within the type only: the index left out
generate_issue_key_NoIndex(issue_type, index) == prefixes(issue_type) \o "-" \o Pad4(1)

generate_issue_key(issue_type, index) == prefixes(issue_type) \o "-" \o Pad4(index)

---------------------------------------------------------------------------
(* generate_realistic_summary.  A template is the sequence of its literal   *)
(* pieces and its {placeholders}; str.format puts the keyword's value in    *)
(* the place of each placeholder.  Every keyword argument is evaluated,     *)
(* and so drawn, whether the chosen template uses it or not.                *)

feature_templates ==
    << <<"Implement ", "{feature}", " for ", "{domain}">>,
       <<"Add ", "{capability}", " to ", "{system}">>,
       <<"Enhance ", "{component}", " with ", "{functionality}">>,
       <<"Create ", "{service}", " integration">>,
       <<"Develop ", "{feature}", " dashboard">> >>

story_templates ==
    << <<"As a user, I want to ", "{action}", " so that ", "{benefit}">>,
       <<"Implement ", "{component}", " API endpoint">>,
       <<"Add validation for ", "{field}">>,
       <<"Create unit tests for ", "{module}">>,
       <<"Update documentation for ", "{feature}">> >>

bug_templates ==
    << <<"Fix ", "{component}", " memory leak">>,
       <<"Resolve ", "{system}", " timeout issues">>,
       <<"Correct ", "{feature}", " validation logic">>,
       <<"Address ", "{service}", " error handling">>,
       <<"Fix ", "{ui}", " display issues">> >>

domains(art) ==
    CASE art = "Platform" -> <<"authentication", "infrastructure", "monitoring", "deployment">>
      [] art = "Commerce" -> <<"checkout", "payment", "catalog", "inventory">>
      [] art = "Analytics" -> <<"reporting", "metrics", "dashboards", "data pipeline">>
      [] art = "Mobile" -> <<"iOS app", "Android app", "push notifications", "offline sync">>
      [] OTHER -> <<"authentication", "infrastructure", "monitoring", "deployment">>

summary_features == <<"user management", "data export", "real-time sync", "performance optimization">>
summary_components == <<"API", "database", "UI component", "service", "module">>

RECURSIVE Format(_, _)
Format(template, kwargs) ==
    IF Len(template) = 0 THEN ""
    ELSE (IF Head(template) \in DOMAIN kwargs THEN kwargs[Head(template)] ELSE Head(template))
         \o Format(Tail(template), kwargs)

RECURSIVE Adv(_, _)
\* the state of the random module after k draws from state s
Adv(s, k) == IF k = 0 THEN s ELSE Adv(Step(s), k - 1)

\* [v |-> the summary, s |-> the generator state after its draws]
generate_realistic_summary(issue_type, pi, art, s) ==
    IF issue_type = "Feature" THEN
        [v |-> Format(Choice(s, feature_templates),
                 [k \in {"{feature}", "{domain}", "{capability}", "{system}",
                         "{component}", "{functionality}", "{service}"} |->
                    CASE k = "{feature}" -> Choice(Adv(s, 1), summary_features)
                      [] k = "{domain}" -> Choice(Adv(s, 2), domains(art))
                      [] k = "{capability}" ->
                            Choice(Adv(s, 3), <<"search", "filtering", "sorting", "pagination">>)
                      [] k = "{system}" -> art \o " system"
                      [] k = "{component}" -> Choice(Adv(s, 4), summary_components)
                      [] k = "{functionality}" ->
                            Choice(Adv(s, 5), <<"caching", "validation", "security", "monitoring">>)
                      [] k = "{service}" -> Lower(art) \o " service"]),
         s |-> Adv(s, 6)]
    ELSE IF issue_type = "Story" THEN
        [v |-> Format(Choice(s, story_templates),
                 [k \in {"{action}", "{benefit}", "{component}", "{field}",
                         "{module}", "{feature}"} |->
                    CASE k = "{action}" ->
                            Choice(Adv(s, 1), <<"view reports", "export data",
                                                "filter results", "save preferences">>)
                      [] k = "{benefit}" ->
                            Choice(Adv(s, 2), <<"better visibility", "improved efficiency",
                                                "easier access", "enhanced security">>)
                      [] k = "{component}" -> Choice(Adv(s, 3), summary_components)
                      [] k = "{field}" -> Choice(Adv(s, 4), <<"email", "password", "date", "amount">>)
                      [] k = "{module}" ->
                            Choice(Adv(s, 5), <<"authentication", "validation",
                                                "reporting", "integration">>)
                      [] k = "{feature}" -> Choice(Adv(s, 6), domains(art))]),
         s |-> Adv(s, 7)]
    ELSE IF issue_type = "Bug" THEN
        [v |-> Format(Choice(s, bug_templates),
                 [k \in {"{component}", "{system}", "{feature}", "{service}", "{ui}"} |->
                    CASE k = "{component}" -> Choice(Adv(s, 1), summary_components)
                      [] k = "{system}" -> art \o " system"
                      [] k = "{feature}" -> Choice(Adv(s, 2), domains(art))
                      [] k = "{service}" -> Lower(art) \o " service"
                      [] k = "{ui}" -> Choice(Adv(s, 3), <<"form", "table", "chart", "modal">>)]),
         s |-> Adv(s, 4)]
    ELSE
        [v |-> issue_type \o " for " \o art \o " " \o pi, s |-> s]

---------------------------------------------------------------------------
(* generate_labels *)

label_components == <<"backend", "frontend", "database", "api", "integration">>

\* generate_labels with the OBJ tag appended whatever the issue type
generate_labels_ObjForAll(pi, art, issue_type, s) ==
    LET base == <<pi, "ART-" \o art>>
        l1 == Append(base, "OBJ-" \o ToString(RandInt(s, 1, 5)))
        s1 == Step(s)
        comp == Chance(s1, 60)
        l2 == IF comp THEN Append(l1, Choice(Step(s1), label_components)) ELSE l1
        s2 == IF comp THEN Adv(s1, 2) ELSE Step(s1)
        l3 == IF Chance(s2, 30) THEN Append(l2, "urgent") ELSE l2
    IN [v |-> Join(l3, ", "), s |-> Step(s2)]

\* generate_labels with the PI tag left out of the labels of an issue that
\* gets a component label
generate_labels_NoPI(pi, art, issue_type, s) ==
    LET base == <<pi, "ART-" \o art>>
        isFeature == issue_type = "Feature"
        l1 == IF isFeature THEN Append(base, "OBJ-" \o ToString(RandInt(s, 1, 5))) ELSE base
        s1 == IF isFeature THEN Step(s) ELSE s
        comp == Chance(s1, 60)
        l2 == IF comp THEN Append(Tail(l1), Choice(Step(s1), label_components)) ELSE l1
        s2 == IF comp THEN Adv(s1, 2) ELSE Step(s1)
        l3 == IF Chance(s2, 30) THEN Append(l2, "urgent") ELSE l2
    IN [v |-> Join(l3, ", "), s |-> Step(s2)]

\* [v |-> the joined label string, s |-> the generator state after its draws]
generate_labels(pi, art, issue_type, s) ==
    LET base == <<pi, "ART-" \o art>>
        isFeature == issue_type = "Feature"
        l1 == IF isFeature THEN Append(base, "OBJ-" \o ToString(RandInt(s, 1, 5))) ELSE base
        s1 == IF isFeature THEN Step(s) ELSE s
        comp == Chance(s1, 60)
        l2 == IF comp THEN Append(l1, Choice(Step(s1), label_components)) ELSE l1
        s2 == IF comp THEN Adv(s1, 2) ELSE Step(s1)
        l3 == IF Chance(s2, 30) THEN Append(l2, "urgent") ELSE l2
    IN [v |-> Join(l3, ", "), s |-> Step(s2)]

---------------------------------------------------------------------------
(* generate_story_points *)

\* [v |-> the estimate or None, s |-> the generator state after its draw]
generate_story_points(issue_type, s) ==
    IF issue_type = "Feature" THEN [v |-> None, s |-> s]
    ELSE IF issue_type = "Story" THEN
        [v |-> Choices(s, <<1, 2, 3, 5, 8, 13>>, <<20, 30, 25, 15, 8, 2>>), s |-> Step(s)]
    ELSE IF issue_type = "Bug" THEN
        [v |-> Choices(s, <<1, 2, 3, 5>>, <<40, 30, 20, 10>>), s |-> Step(s)]
    ELSE IF issue_type \in {"Task", "Sub-task"} THEN
        [v |-> Choices(s, <<1, 2, 3>>, <<50, 30, 20>>), s |-> Step(s)]
    ELSE [v |-> None, s |-> s]

---------------------------------------------------------------------------
(* generate_dates *)

\* the guard on the resolved date: max_days > min_days, with min_days = 1
ResolvedRangeOk(max_days) == max_days > 1

\* generate_dates with the resolved date drawn before the created date
generate_dates_Before(pi, status, s) ==
    LET pi_start == pi_dates(pi)[1]
        pi_end == pi_dates(pi)[2]
        created_date ==
            IF Chance(s, 70)
            THEN pi_start + RandInt(Step(s), 0, pi_end - pi_start)
            ELSE pi_start - RandInt(Step(s), 1, 60)
        s2 == Adv(s, 2)
        max_days == Min(30, pi_end - created_date)
        drawn == status = "Done" /\ ResolvedRangeOk(max_days)
    IN [created_date |-> created_date,
        resolved_date |-> IF drawn THEN created_date - RandInt(s2, 1, max_days) ELSE None,
        s |-> IF drawn THEN Step(s2) ELSE s2]

\* generate_dates with a created date up to one day past the PI's end:
\* randint(0, days + 1)
generate_dates_PastEnd(pi, status, s) ==
    LET pi_start == pi_dates(pi)[1]
        pi_end == pi_dates(pi)[2]
        created_date ==
            IF Chance(s, 70)
            THEN pi_start + RandInt(Step(s), 0, pi_end - pi_start + 1)
            ELSE pi_start - RandInt(Step(s), 1, 60)
        s2 == Adv(s, 2)
        max_days == Min(30, pi_end - created_date)
        drawn == status = "Done" /\ ResolvedRangeOk(max_days)
    IN [created_date |-> created_date,
        resolved_date |-> IF drawn THEN created_date + RandInt(s2, 1, max_days) ELSE None,
        s |-> IF drawn THEN Step(s2) ELSE s2]

\* generate_dates without the test on the status
generate_dates_AnyStatus(pi, status, s) ==
    LET pi_start == pi_dates(pi)[1]
        pi_end == pi_dates(pi)[2]
        created_date ==
            IF Chance(s, 70)
            THEN pi_start + RandInt(Step(s), 0, pi_end - pi_start)
            ELSE pi_start - RandInt(Step(s), 1, 60)
        s2 == Adv(s, 2)
        max_days == Min(30, pi_end - created_date)
        drawn == ResolvedRangeOk(max_days)
    IN [created_date |-> created_date,
        resolved_date |-> IF drawn THEN created_date + RandInt(s2, 1, max_days) ELSE None,
        s |-> IF drawn THEN Step(s2) ELSE s2]

\* [created_date, resolved_date, s |-> the generator state after its draws]
generate_dates(pi, status, s) ==
    LET pi_start == pi_dates(pi)[1]
        pi_end == pi_dates(pi)[2]
        created_date ==
            IF Chance(s, 70)
            THEN pi_start + RandInt(Step(s), 0, pi_end - pi_start)
            ELSE pi_start - RandInt(Step(s), 1, 60)
        s2 == Adv(s, 2)
        max_days == Min(30, pi_end - created_date)
        drawn == status = "Done" /\ ResolvedRangeOk(max_days)
    IN [created_date |-> created_date,
        resolved_date |-> IF drawn THEN created_date + RandInt(s2, 1, max_days) ELSE None,
        s |-> IF drawn THEN Step(s2) ELSE s2]

---------------------------------------------------------------------------
(* generate_issues *)

num_features == counts[1]
num_stories == counts[2]
num_bugs == counts[3]
num_tasks == counts[4]

\* status weights of a Feature, by PI
FeatureWeights(pi) ==
    IF pi = "PI-2024-Q2" THEN <<5, 10, 10, 70, 5>>
    ELSE IF pi = "PI-2024-Q3" THEN <<10, 20, 15, 50, 5>>
    ELSE <<30, 30, 20, 15, 5>>

StoryWeights == <<15, 25, 15, 40, 5>>
BugWeights == <<20, 30, 10, 35, 5>>
TaskWeights == <<10, 20, 10, 55, 5>>

\* 'priority': random.choice(self.priorities), weighted for a Bug
DrawPriority(issue_type, s) ==
    IF issue_type = "Bug" THEN Choices(s, priorities, <<10, 30, 40, 20>>)
    ELSE Choice(s, priorities)

\* generate_dates(pi, status) and the issue dict, whose values are evaluated
\* in the order written: key, summary, priority, labels, story_points.
\* [issue |-> the dict, s |-> the generator state after its draws]
BuildIssue(issue_type, index, pi, art, workstream, status, parent_key, s) ==
    LET dates == generate_dates(pi, status, s)
        summary == generate_realistic_summary(issue_type, pi, art, dates.s)
        priority == DrawPriority(issue_type, summary.s)
        labels == generate_labels(pi, art, issue_type, Step(summary.s))
        story_points == generate_story_points(issue_type, labels.s)
    IN [issue |-> [key |-> generate_issue_key(issue_type, index),
                   issuetype |-> issue_type,
                   summary |-> summary.v,
                   status |-> status,
                   priority |-> priority,
                   workstream |-> workstream,
                   labels |-> labels.v,
                   story_points |-> story_points.v,
                   created_date |-> dates.created_date,
                   resolved_date |-> dates.resolved_date,
                   parent_key |-> parent_key],
        s |-> story_points.s]

\* SamePIFeatures without the test on the PI
SamePIFeatures_AnyPI(population, pi) ==
    SelectSeq(population, LAMBDA iss : iss.issuetype = "Feature")

\* the Features of the population built so far that share the Story's PI
SamePIFeatures(population, pi) ==
    SelectSeq(population, LAMBDA iss : iss.issuetype = "Feature" /\ Contains(iss.labels, pi))

\* [v |-> parent_key, s |-> the generator state after its draws]
DrawParent(population, pi, s) ==
    LET feature_issues == SamePIFeatures(population, pi)
    IN IF Chance(s, 60) /\ Len(feature_issues) > 0
       THEN [v |-> Choice(Step(s), feature_issues).key, s |-> Adv(s, 2)]
       ELSE [v |-> NoneStr, s |-> Step(s)]

\* the loop a record of the population is generated by, from the number of
\* records generated so far
LoopAt(n) ==
    IF n < Max(num_features, 0) THEN "Feature"
    ELSE IF n < Max(num_features, 0) + Max(num_stories, 0) THEN "Story"
    ELSE IF n < Max(num_features, 0) + Max(num_stories, 0) + Max(num_bugs, 0) THEN "Bug"
    ELSE IF n < Max(num_features, 0) + Max(num_stories, 0) + Max(num_bugs, 0)
                 + Max(num_tasks, 0) THEN "Task"
    ELSE "return"

Emit(built) ==
    /\ issues' = Append(issues, built.issue)
    /\ issue_index' = issue_index + 1
    /\ rng' = built.s
    /\ UNCHANGED <<seed, counts, nprng, pc, issues_df, cursor, changelog, links,
                   run, fresh, first>>

\* one iteration of: for i in range(num_features)
GenerateFeature ==
    /\ pc = "issues"
    /\ LoopAt(Len(issues)) = "Feature"
    /\ LET pi == Choice(rng, pis)
           art == Choice(Adv(rng, 1), arts)
           workstream == Choice(Adv(rng, 2), workstreams)
           status == Choices(Adv(rng, 3), statuses, FeatureWeights(pi))
       IN Emit(BuildIssue("Feature", issue_index, pi, art, workstream, status,
                          NoneStr, Adv(rng, 4)))

\* one iteration of: for i in range(num_stories)
GenerateStory ==
    /\ pc = "issues"
    /\ LoopAt(Len(issues)) = "Story"
    /\ LET pi == Choice(rng, pis)
           art == Choice(Adv(rng, 1), arts)
           workstream == Choice(Adv(rng, 2), workstreams)
           status == Choices(Adv(rng, 3), statuses, StoryWeights)
           parent == DrawParent(issues, pi, Adv(rng, 4))
       IN Emit(BuildIssue("Story", issue_index, pi, art, workstream, status,
                          parent.v, parent.s))

\* one iteration of: for i in range(num_bugs)
GenerateBug ==
    /\ pc = "issues"
    /\ LoopAt(Len(issues)) = "Bug"
    /\ LET pi == Choice(rng, pis)
           art == Choice(Adv(rng, 1), arts)
           workstream == Choice(Adv(rng, 2), workstreams)
           status == Choices(Adv(rng, 3), statuses, BugWeights)
       IN Emit(BuildIssue("Bug", issue_index, pi, art, workstream, status,
                          NoneStr, Adv(rng, 4)))

\* GenerateTask generating the roster's fifth type, a Sub-task
GenerateTask_AsSubTask ==
    /\ pc = "issues"
    /\ LoopAt(Len(issues)) = "Task"
    /\ LET pi == Choice(rng, pis)
           art == Choice(Adv(rng, 1), arts)
           workstream == Choice(Adv(rng, 2), workstreams)
           status == Choices(Adv(rng, 3), statuses, TaskWeights)
       IN Emit(BuildIssue("Sub-task", issue_index, pi, art, workstream, status,
                          NoneStr, Adv(rng, 4)))

\* one iteration of: for i in range(num_tasks)
GenerateTask ==
    /\ pc = "issues"
    /\ LoopAt(Len(issues)) = "Task"
    /\ LET pi == Choice(rng, pis)
           art == Choice(Adv(rng, 1), arts)
           workstream == Choice(Adv(rng, 2), workstreams)
           status == Choices(Adv(rng, 3), statuses, TaskWeights)
       IN Emit(BuildIssue("Task", issue_index, pi, art, workstream, status,
                          NoneStr, Adv(rng, 4)))

\* pd.DataFrame(list of dicts): a datetime (numeric) column that holds a
\* value stores None as NaT (NaN); a column of None only keeps None.
DataFrame(rows) ==
    LET anyDate == \E i \in 1..Len(rows) : rows[i].resolved_date # None
        anyPoints == \E i \in 1..Len(rows) : rows[i].story_points # None
    IN [i \in 1..Len(rows) |->
          [rows[i] EXCEPT
             !.resolved_date = IF @ = None /\ anyDate THEN NaT ELSE @,
             !.story_points = IF @ = None /\ anyPoints THEN NaN ELSE @]]

\* return pd.DataFrame(issues); create_test_database goes on to the changelog
ReturnIssues ==
    /\ pc = "issues"
    /\ LoopAt(Len(issues)) = "return"
    /\ issues_df' = DataFrame(issues)
    /\ pc' = "changelog"
    /\ cursor' = 1
    /\ UNCHANGED <<seed, counts, rng, nprng, issues, issue_index, changelog, links,
                   run, fresh, first>>

---------------------------------------------------------------------------
(* generate_changelog *)

status_flow == <<"To Do", "In Progress", "In Review", "Done">>

\* status_flow.index(status) + 1
FlowIndex(status) == CHOOSE i \in 1..Len(status_flow) : status_flow[i] = status

\* Transitions with In Progress left out of the flow of a Blocked issue
Transitions_BlockedShort(current_status) ==
    IF current_status = "Blocked" THEN <<"To Do", "Blocked">>
    ELSE IF \E i \in 1..Len(status_flow) : status_flow[i] = current_status
         THEN SubSeq(status_flow, 1, FlowIndex(current_status))
         ELSE <<"To Do", current_status>>

\* Transitions with the current status appended to the flow cut at it
Transitions_CurrentTwice(current_status) ==
    IF current_status = "Blocked" THEN <<"To Do", "In Progress", "Blocked">>
    ELSE IF \E i \in 1..Len(status_flow) : status_flow[i] = current_status
         THEN Append(SubSeq(status_flow, 1, FlowIndex(current_status)), current_status)
         ELSE <<"To Do", current_status>>

\* Transitions cut one short: status_flow[:end_index]
Transitions_CutShort(current_status) ==
    IF current_status = "Blocked" THEN <<"To Do", "In Progress", "Blocked">>
    ELSE IF \E i \in 1..Len(status_flow) : status_flow[i] = current_status
         THEN SubSeq(status_flow, 1, Max(1, FlowIndex(current_status) - 1))
         ELSE <<"To Do", current_status>>

\* the statuses the issue went through, its current status last
Transitions(current_status) ==
    IF current_status = "Blocked" THEN <<"To Do", "In Progress", "Blocked">>
    ELSE IF \E i \in 1..Len(status_flow) : status_flow[i] = current_status
         THEN SubSeq(status_flow, 1, FlowIndex(current_status))
         ELSE <<"To Do", current_status>>

\* date + timedelta(days=n); arithmetic on NaT gives NaT
AddDays(date, n) == IF date = NaT THEN NaT ELSE date + n

\* (max_date - current_date).days; NaN when either is NaT
DaysBetween(max_date, current_date) ==
    IF max_date = NaT \/ current_date = NaT THEN NaN ELSE max_date - current_date

\* the date of the transition to status (not the creation entry), drawn in
\* state s.  [v |-> transition_date, s |-> the generator state after it]
TransitionDate(status, resolved_date, current_date, s) ==
    IF Truthy(resolved_date) /\ status = "Done"
    THEN [v |-> resolved_date, s |-> s]
    ELSE LET max_date == IF Truthy(resolved_date) THEN resolved_date
                         ELSE AddDays(current_date, 30)
             days_diff == DaysBetween(max_date, current_date)
         IN IF days_diff # NaN /\ days_diff > 0
            THEN [v |-> AddDays(current_date, RandInt(s, 1, Max(1, days_diff))),
                  s |-> Step(s)]
            ELSE [v |-> AddDays(current_date, 1), s |-> s]

RECURSIVE StatusEntries_FromCurrent(_, _, _, _, _, _)
\* StatusEntries with from_value read at the index of the entry itself:
\* transitions[i] for transitions[i-1]
StatusEntries_FromCurrent(issue, transitions, i, current_date, s, acc) ==
    IF i > Len(transitions) THEN [v |-> acc, s |-> s]
    ELSE IF i = 1
    THEN StatusEntries_FromCurrent(issue, transitions, 2, current_date, s,
             Append(acc, [issue_key |-> issue.key,
                          field |-> "status",
                          from_value |-> NoneStr,
                          to_value |-> transitions[1],
                          changed_date |-> current_date]))
    ELSE LET t == TransitionDate(transitions[i], issue.resolved_date, current_date, s)
         IN StatusEntries_FromCurrent(issue, transitions, i + 1, t.v, t.s,
                Append(acc, [issue_key |-> issue.key,
                             field |-> "status",
                             from_value |-> transitions[i],
                             to_value |-> transitions[i],
                             changed_date |-> t.v]))

RECURSIVE StatusEntries(_, _, _, _, _, _)
\* for i, status in enumerate(transitions), from the i-th on (1-based):
\* [v |-> acc with the entries appended, s |-> the generator state after them]
StatusEntries(issue, transitions, i, current_date, s, acc) ==
    IF i > Len(transitions) THEN [v |-> acc, s |-> s]
    ELSE IF i = 1
    THEN StatusEntries(issue, transitions, 2, current_date, s,
             Append(acc, [issue_key |-> issue.key,
                          field |-> "status",
                          from_value |-> NoneStr,
                          to_value |-> transitions[1],
                          changed_date |-> current_date]))
    ELSE LET t == TransitionDate(transitions[i], issue.resolved_date, current_date, s)
         IN StatusEntries(issue, transitions, i + 1, t.v, t.s,
                Append(acc, [issue_key |-> issue.key,
                             field |-> "status",
                             from_value |-> transitions[i - 1],
                             to_value |-> transitions[i],
                             changed_date |-> t.v]))

\* LabelEntry with the Q4 tag appended to the labels, not put in the place
\* of the Q3 tag
LabelEntry_AppendsPI(issue, s, acc) ==
    IF ~Chance(s, 15) THEN [v |-> acc, s |-> Step(s)]
    ELSE LET label_change_date == AddDays(issue.created_date, RandInt(Step(s), 1, 14))
             old_labels == issue.labels
             hasQ3 == Contains(old_labels, "PI-2024-Q3")
             moved == hasQ3 /\ Chance(Adv(s, 2), 50)
             new_labels == IF moved THEN old_labels \o ", PI-2024-Q4"
                           ELSE old_labels \o ", urgent"
         IN [v |-> Append(acc, [issue_key |-> issue.key,
                                field |-> "labels",
                                from_value |-> old_labels,
                                to_value |-> new_labels,
                                changed_date |-> label_change_date]),
             s |-> IF hasQ3 THEN Adv(s, 3) ELSE Adv(s, 2)]

\* the label change of 15% of the issues, drawn in state s:
\* [v |-> acc with the entry appended (or acc), s |-> the generator state after]
LabelEntry(issue, s, acc) ==
    IF ~Chance(s, 15) THEN [v |-> acc, s |-> Step(s)]
    ELSE LET label_change_date == AddDays(issue.created_date, RandInt(Step(s), 1, 14))
             old_labels == issue.labels
             hasQ3 == Contains(old_labels, "PI-2024-Q3")
             moved == hasQ3 /\ Chance(Adv(s, 2), 50)
             new_labels == IF moved THEN Replace(old_labels, "PI-2024-Q3", "PI-2024-Q4")
                           ELSE old_labels \o ", urgent"
         IN [v |-> Append(acc, [issue_key |-> issue.key,
                                field |-> "labels",
                                from_value |-> old_labels,
                                to_value |-> new_labels,
                                changed_date |-> label_change_date]),
             s |-> IF hasQ3 THEN Adv(s, 3) ELSE Adv(s, 2)]

\* the body of: for _, issue in issues_df.iterrows()
IssueChangelog(issue, s, acc) ==
    LET st == StatusEntries(issue, Transitions(issue.status), 1, issue.created_date, s, acc)
    IN LabelEntry(issue, st.s, st.v)

\* GenerateChangelog with the label change written to the issue's row too
GenerateChangelog_WritesLabels ==
    /\ pc = "changelog"
    /\ cursor <= Len(issues_df)
    /\ LET out == IssueChangelog(issues_df[cursor], rng, changelog)
           last == out.v[Len(out.v)]
       IN /\ changelog' = out.v
          /\ rng' = out.s
          /\ issues_df' = IF last.field = "labels"
                          THEN [issues_df EXCEPT ![cursor].labels = last.to_value]
                          ELSE issues_df
    /\ cursor' = cursor + 1
    /\ UNCHANGED <<seed, counts, nprng, pc, issues, issue_index, links,
                   run, fresh, first>>

\* one iteration of: for _, issue in issues_df.iterrows()
GenerateChangelog ==
    /\ pc = "changelog"
    /\ cursor <= Len(issues_df)
    /\ LET out == IssueChangelog(issues_df[cursor], rng, changelog)
       IN /\ changelog' = out.v
          /\ rng' = out.s
    /\ cursor' = cursor + 1
    /\ UNCHANGED <<seed, counts, nprng, pc, issues, issue_index, issues_df, links,
                   run, fresh, first>>

\* return pd.DataFrame(changelog); create_test_database goes on to the links
ReturnChangelog ==
    /\ pc = "changelog"
    /\ cursor > Len(issues_df)
    /\ pc' = "links"
    /\ UNCHANGED <<seed, counts, rng, nprng, issues, issue_index, issues_df, cursor,
                   changelog, links, run, fresh, first>>

---------------------------------------------------------------------------
(* generate_issue_links *)

features == SelectSeq(issues_df, LAMBDA iss : iss.issuetype = "Feature")
stories == SelectSeq(issues_df, LAMBDA iss : iss.issuetype = "Story")

\* issues_df[issues_df['issuetype'] == ...]: a DataFrame built from an empty
\* list has no columns, and the lookup raises KeyError
SelectRows ==
    /\ pc = "links"
    /\ pc' = IF Len(issues_df) = 0 THEN "error" ELSE "epic"
    /\ cursor' = 1
    /\ UNCHANGED <<seed, counts, rng, nprng, issues, issue_index, issues_df,
                   changelog, links, run, fresh, first>>

\* LinkStory with source_key and target_key the wrong way round
LinkStory_Swapped ==
    /\ pc = "epic"
    /\ cursor <= Len(stories)
    /\ LET story == stories[cursor]
       IN links' = IF story.parent_key # NoneStr
                   THEN Append(links, [source_key |-> story.key,
                                       target_key |-> story.parent_key,
                                       link_type |-> "Epic-Story"])
                   ELSE links
    /\ cursor' = cursor + 1
    /\ UNCHANGED <<seed, counts, rng, nprng, pc, issues, issue_index, issues_df,
                   changelog, run, fresh, first>>

\* LinkStory without the test on parent_key
LinkStory_Always ==
    /\ pc = "epic"
    /\ cursor <= Len(stories)
    /\ LET story == stories[cursor]
       IN links' = Append(links, [source_key |-> story.parent_key,
                                  target_key |-> story.key,
                                  link_type |-> "Epic-Story"])
    /\ cursor' = cursor + 1
    /\ UNCHANGED <<seed, counts, rng, nprng, pc, issues, issue_index, issues_df,
                   changelog, run, fresh, first>>

\* one iteration of: for _, story in stories.iterrows()
LinkStory ==
    /\ pc = "epic"
    /\ cursor <= Len(stories)
    /\ LET story == stories[cursor]
       IN links' = IF story.parent_key # NoneStr
                   THEN Append(links, [source_key |-> story.parent_key,
                                       target_key |-> story.key,
                                       link_type |-> "Epic-Story"])
                   ELSE links
    /\ cursor' = cursor + 1
    /\ UNCHANGED <<seed, counts, rng, nprng, pc, issues, issue_index, issues_df,
                   changelog, run, fresh, first>>

StoriesDone ==
    /\ pc = "epic"
    /\ cursor > Len(stories)
    /\ pc' = "dependency"
    /\ cursor' = 1
    /\ UNCHANGED <<seed, counts, rng, nprng, issues, issue_index, issues_df,
                   changelog, links, run, fresh, first>>

\* the first label that starts with ART-, None when there is none
FeatureArt(labels) ==
    LET parts == Split(labels, ", ")
        hits == {i \in 1..Len(parts) : StartsWith(parts[i], "ART-")}
    IN IF hits = {} THEN NoneStr
       ELSE parts[CHOOSE i \in hits : \A j \in hits : i <= j]

\* OtherFeatures without the filter on the ART tag
OtherFeatures_AnyArt(feature, feature_art) ==
    SelectSeq(features, LAMBDA f : f.key # feature.key)

\* the Features a dependency of feature may point to
OtherFeatures(feature, feature_art) ==
    SelectSeq(features, LAMBDA f : f.key # feature.key /\ ~Contains(f.labels, feature_art))

\* other_features.sample(1).iloc[0], drawn from numpy.random in state s
Sample(rows, s) == rows[1 + (NpStep(s) * Len(rows)) \div RngMod]

\* LinkFeature without the test 'if not other_features.empty': sample(1) of
\* an empty frame raises ValueError
LinkFeature_NoEmptyCheck ==
    /\ pc = "dependency"
    /\ cursor <= Len(features)
    /\ LET feature == features[cursor]
           feature_art == FeatureArt(feature.labels)
           other_features == OtherFeatures(feature, feature_art)
           emit == Chance(rng, 30) /\ feature_art # NoneStr
       IN IF emit /\ Len(other_features) = 0
          THEN /\ pc' = "error"
               /\ UNCHANGED <<links, nprng>>
          ELSE /\ links' = IF emit
                           THEN Append(links, [source_key |-> feature.key,
                                               target_key |-> Sample(other_features, nprng).key,
                                               link_type |-> "Dependency"])
                           ELSE links
               /\ nprng' = IF emit THEN NpStep(nprng) ELSE nprng
               /\ pc' = pc
    /\ rng' = Step(rng)
    /\ cursor' = cursor + 1
    /\ UNCHANGED <<seed, counts, issues, issue_index, issues_df, changelog,
                   run, fresh, first>>

\* LinkFeature with the link appended twice
LinkFeature_Twice ==
    /\ pc = "dependency"
    /\ cursor <= Len(features)
    /\ LET feature == features[cursor]
           feature_art == FeatureArt(feature.labels)
           other_features == OtherFeatures(feature, feature_art)
           emit == Chance(rng, 30) /\ feature_art # NoneStr /\ Len(other_features) > 0
           link == [source_key |-> feature.key,
                    target_key |-> Sample(other_features, nprng).key,
                    link_type |-> "Dependency"]
       IN /\ links' = IF emit THEN links \o <<link, link>> ELSE links
          /\ nprng' = IF emit THEN NpStep(nprng) ELSE nprng
    /\ rng' = Step(rng)
    /\ cursor' = cursor + 1
    /\ UNCHANGED <<seed, counts, pc, issues, issue_index, issues_df, changelog,
                   run, fresh, first>>

\* one iteration of: for _, feature in features.iterrows()
LinkFeature ==
    /\ pc = "dependency"
    /\ cursor <= Len(features)
    /\ LET feature == features[cursor]
           feature_art == FeatureArt(feature.labels)
           other_features == OtherFeatures(feature, feature_art)
           emit == Chance(rng, 30) /\ feature_art # NoneStr /\ Len(other_features) > 0
       IN /\ links' = IF emit
                      THEN Append(links, [source_key |-> feature.key,
                                          target_key |-> Sample(other_features, nprng).key,
                                          link_type |-> "Dependency"])
                      ELSE links
          /\ nprng' = IF emit THEN NpStep(nprng) ELSE nprng
    /\ rng' = Step(rng)
    /\ cursor' = cursor + 1
    /\ UNCHANGED <<seed, counts, pc, issues, issue_index, issues_df, changelog,
                   run, fresh, first>>

\* return pd.DataFrame(links)
ReturnLinks ==
    /\ pc = "dependency"
    /\ cursor > Len(features)
    /\ pc' = "done"
    /\ UNCHANGED <<seed, counts, rng, nprng, issues, issue_index, issues_df, cursor,
                   changelog, links, run, fresh, first>>

---------------------------------------------------------------------------
(* Generation runs *)

Tables == [issues |-> issues_df, changelog |-> changelog, links |-> links]

\* StartRun with the key index kept from the run before
StartRun_IndexKept ==
    /\ first' = Tables
    /\ run' = 2
    /\ pc' = "issues"
    /\ issues' = <<>>
    /\ issues_df' = <<>>
    /\ cursor' = 0
    /\ changelog' = <<>>
    /\ links' = <<>>
    /\ UNCHANGED <<seed, counts, issue_index>>

\* generate_issues starts over: issues = [], issue_index = 1
StartRun ==
    /\ first' = Tables
    /\ run' = 2
    /\ pc' = "issues"
    /\ issues' = <<>>
    /\ issue_index' = 1
    /\ issues_df' = <<>>
    /\ cursor' = 0
    /\ changelog' = <<>>
    /\ links' = <<>>
    /\ UNCHANGED <<seed, counts>>

\* a second generation on the same generator object: nothing seeds the
\* generators again
Rerun ==
    /\ pc = "done"
    /\ run = 1
    /\ StartRun
    /\ fresh' = FALSE
    /\ UNCHANGED <<rng, nprng>>

\* Reconstruct with an __init__ that seeds nothing
Reconstruct_Unseeded ==
    /\ pc = "done"
    /\ run = 1
    /\ StartRun
    /\ fresh' = TRUE
    /\ UNCHANGED <<rng, nprng>>

\* __init__ of a new generator with the same seed, and its generation
Reconstruct ==
    /\ pc = "done"
    /\ run = 1
    /\ StartRun
    /\ fresh' = TRUE
    /\ rng' = SeedRandom(seed)
    /\ nprng' = SeedNumpy(seed)

---------------------------------------------------------------------------
(* Specifications *)

Configurations ==
    (0..MaxFeatures) \X (0..MaxStories) \X (0..MaxBugs) \X (0..MaxTasks)

\* the defaults of __init__ and of generate_issues
DefaultSeed == 42
DefaultCounts == <<50, 200, 80, 100>>

\* JiraTestDataGenerator(seed) constructed, create_test_database entered
Constructed ==
    /\ rng = SeedRandom(seed)
    /\ nprng = SeedNumpy(seed)
    /\ pc = "issues"
    /\ issues = <<>>
    /\ issue_index = 1
    /\ issues_df = <<>>
    /\ cursor = 0
    /\ changelog = <<>>
    /\ links = <<>>
    /\ run = 1
    /\ fresh = FALSE
    /\ first = <<>>

Init ==
    /\ seed \in 0..MaxSeed
    /\ counts \in Configurations
    /\ Constructed

\* JiraTestDataGenerator().create_test_database()
InitDefault ==
    /\ seed = DefaultSeed
    /\ counts = DefaultCounts
    /\ Constructed

Next ==
    \/ GenerateFeature
    \/ GenerateStory
    \/ GenerateBug
    \/ GenerateTask
    \/ ReturnIssues
    \/ GenerateChangelog
    \/ ReturnChangelog
    \/ SelectRows
    \/ LinkStory
    \/ StoriesDone
    \/ LinkFeature
    \/ ReturnLinks

\* one generation run
Spec == Init /\ [][Next]_vars

NextRuns == Next \/ Rerun \/ Reconstruct

\* a generation run and a second one, on the same generator or on a new one
SpecRuns == Init /\ [][NextRuns]_vars

\* one generation run, the run with the default seed and counts among them
SpecDefault == (Init \/ InitDefault) /\ [][Next]_vars

\* two Dependency links of the run have the same source and target
DuplicateDependency ==
    \E i, j \in 1..Len(links) :
        /\ i < j
        /\ links[i].link_type = "Dependency"
        /\ links[j].link_type = "Dependency"
        /\ links[i].source_key = links[j].source_key
        /\ links[i].target_key = links[j].target_key

\* the counts after c, in the order of Configurations
NextCounts(c) ==
    IF c[4] < MaxTasks THEN <<c[1], c[2], c[3], c[4] + 1>>
    ELSE IF c[3] < MaxBugs THEN <<c[1], c[2], c[3] + 1, 0>>
    ELSE IF c[2] < MaxStories THEN <<c[1], c[2] + 1, 0, 0>>
    ELSE <<c[1] + 1, 0, 0, 0>>

LastCounts == <<MaxFeatures, MaxStories, MaxBugs, MaxTasks>>

\* the last of the generators has run
LastGenerator == seed = MaxSeed /\ counts = LastCounts

\* one generator after another: when a run is over without a duplicate
\* Dependency link, __init__ of a generator with the next seed (the next
\* counts after the last seed) and its generation
NextGenerator ==
    /\ pc \in {"done", "error"}
    /\ ~DuplicateDependency
    /\ ~LastGenerator
    /\ seed' = IF seed < MaxSeed THEN seed + 1 ELSE 0
    /\ counts' = IF seed < MaxSeed THEN counts ELSE NextCounts(counts)
    /\ rng' = SeedRandom(seed')
    /\ nprng' = SeedNumpy(seed')
    /\ pc' = "issues"
    /\ issues' = <<>>
    /\ issue_index' = 1
    /\ issues_df' = <<>>
    /\ cursor' = 0
    /\ changelog' = <<>>
    /\ links' = <<>>
    /\ UNCHANGED <<run, fresh, first>>

InitAll ==
    /\ seed = 0
    /\ counts = <<0, 0, 0, 0>>
    /\ Constructed

NextAll == Next \/ NextGenerator

\* the runs of every seed and counts of Init, one after another, up to the
\* first run that emits a duplicate Dependency link
SpecAll == InitAll /\ [][NextAll]_vars

---------------------------------------------------------------------------
(* Reading the tables *)

\* generate_issues has returned its population
Returned == pc # "issues"

\* the changelog of the i-th issue of the population has been emitted
Logged(i) == (pc = "changelog" /\ i < cursor) \/ pc \in {"links", "epic", "dependency", "done", "error"}

\* the changelog entries of one issue, in emission order
EntriesOf(key) == SelectSeq(changelog, LAMBDA e : e.issue_key = key)
StatusEntriesOf(key) == SelectSeq(changelog, LAMBDA e : e.issue_key = key /\ e.field = "status")

\* the dates of a sequence of entries never decrease, null dates left aside
NonDecreasing(entries) ==
    \A i, j \in 1..Len(entries) :
        (i < j /\ ~IsNull(entries[i].changed_date) /\ ~IsNull(entries[j].changed_date))
            => entries[i].changed_date <= entries[j].changed_date

\* the issue of the population with this key
IssueOf(key) == issues_df[CHOOSE i \in 1..Len(issues_df) : issues_df[i].key = key]

\* the ART tags in a label string
ArtTags(labels) == {a \in {"ART-" \o arts[i] : i \in 1..Len(arts)} : Contains(labels, a)}

---------------------------------------------------------------------------
(* Claims *)

\* C1: in the population generate_issues returns, no two Issue records have
\* the same key.
C1_KeysUnique ==
    \A i, j \in 1..Len(issues_df) : i # j => issues_df[i].key # issues_df[j].key

\* C1 witness: a returned population of four records, two of them Features.
C1_Witness ==
    /\ Returned
    /\ Len(issues_df) >= 4
    /\ Len(features) = 2

\* C2 (as claimed): every Issue with status Done has a resolved_date.
C2_DoneHasResolvedDate ==
    \A i \in 1..Len(issues_df) :
        issues_df[i].status = "Done" => ~IsNull(issues_df[i].resolved_date)

\* C3 (as claimed): within one issue's status entries, changed_date never
\* decreases in emission order.
C3_StatusDatesNonDecreasing ==
    \A i \in 1..Len(issues_df) :
        Logged(i) => NonDecreasing(StatusEntriesOf(issues_df[i].key))

\* C4 (as claimed): over all changelog entries of one issue, status and
\* labels entries together, changed_date never decreases in emission order.
C4_EntryDatesNonDecreasing ==
    \A i \in 1..Len(issues_df) :
        Logged(i) => NonDecreasing(EntriesOf(issues_df[i].key))

\* C5 (as claimed): the final status entry of a Done issue is dated at the
\* issue's resolved_date.
C5_DoneEntryAtResolvedDate ==
    \A i \in 1..Len(issues_df) :
        (Logged(i) /\ issues_df[i].status = "Done") =>
            LET entries == StatusEntriesOf(issues_df[i].key)
            IN /\ Len(entries) > 0
               /\ entries[Len(entries)].changed_date = issues_df[i].resolved_date

\* C6: the to_value of an issue's last status entry is the issue's status.
C6_LastEntryIsStatus ==
    \A i \in 1..Len(issues_df) :
        Logged(i) =>
            LET entries == StatusEntriesOf(issues_df[i].key)
            IN /\ Len(entries) > 0
               /\ entries[Len(entries)].to_value = issues_df[i].status

\* C6 witness: a Blocked issue and an In Review issue with their changelog.
C6_Witness ==
    /\ pc = "done"
    /\ \E i \in 1..Len(issues_df) : issues_df[i].status = "Blocked"
    /\ \E i \in 1..Len(issues_df) : issues_df[i].status = "In Review"

C9_CountsOrderKeys ==
    Returned =>
        /\ Len(issues_df) = num_features + num_stories + num_bugs + num_tasks
        /\ \A k \in 1..Len(issues_df) :
              LET type == IF k <= num_features THEN "Feature"
                          ELSE IF k <= num_features + num_stories THEN "Story"
                          ELSE IF k <= num_features + num_stories + num_bugs THEN "Bug"
                          ELSE "Task"
                  prefix == CASE type = "Feature" -> "FEAT-"
                              [] type = "Story" -> "STORY-"
                              [] type = "Bug" -> "BUG-"
                              [] type = "Task" -> "TASK-"
                  digits == ToString(k)
              IN /\ issues_df[k].issuetype = type
                 /\ Len(issues_df[k].key) = Len(prefix) + Max(4, Len(digits))
                 /\ StartsWith(issues_df[k].key, prefix)
                 /\ SubSeq(issues_df[k].key, Len(issues_df[k].key) - Len(digits) + 1,
                           Len(issues_df[k].key)) = digits
                 /\ \A c \in (Len(prefix) + 1)..(Len(issues_df[k].key) - Len(digits)) :
                        SubSeq(issues_df[k].key, c, c) = "0"
        /\ num_features > 0 => issues_df[1].key = "FEAT-0001"
        /\ counts = DefaultCounts => Len(issues_df) = 430

\* C9 witness: the population of the default run, a record of each type in it.
C9_Witness ==
    /\ Returned
    /\ counts = DefaultCounts
    /\ issues_df[50].key = "FEAT-0050"
    /\ issues_df[51].key = "STORY-0051"
    /\ issues_df[251].key = "BUG-0251"
    /\ issues_df[430].key = "TASK-0430"

\* C10: the source and the target of a Dependency link carry different ART
\* tags.
C10_DependencyCrossesArts ==
    \A i \in 1..Len(links) :
        links[i].link_type = "Dependency" =>
            LET source == ArtTags(IssueOf(links[i].source_key).labels)
                target == ArtTags(IssueOf(links[i].target_key).labels)
            IN /\ Cardinality(source) = 1
               /\ Cardinality(target) = 1
               /\ source # target

\* C10 witness: a Dependency link has been emitted.
C10_Witness ==
    \E i \in 1..Len(links) : links[i].link_type = "Dependency"

\* the tokens of a label string that are PI tags
PiTags(labels) ==
    LET parts == Split(labels, ", ")
    IN SelectSeq(parts, LAMBDA t : StartsWith(t, "PI-"))

\* generate_issue_links has emitted every Epic-Story link
EpicLinked == pc \in {"dependency", "done"}

\* C11: when the Epic-Story loop is over, every Story with a non-null
\* parent_key has exactly one link (parent_key, story key, Epic-Story), and
\* every Epic-Story link points to a Story whose non-null parent_key is the
\* link's source.
C11_EpicStoryOneToOne ==
    /\ EpicLinked =>
          \A i \in 1..Len(issues_df) :
              (issues_df[i].issuetype = "Story" /\ issues_df[i].parent_key # NoneStr) =>
                  Cardinality({l \in 1..Len(links) :
                                  /\ links[l].link_type = "Epic-Story"
                                  /\ links[l].source_key = issues_df[i].parent_key
                                  /\ links[l].target_key = issues_df[i].key}) = 1
    /\ \A l \in 1..Len(links) :
          links[l].link_type = "Epic-Story" =>
              \E i \in 1..Len(issues_df) :
                  /\ issues_df[i].issuetype = "Story"
                  /\ issues_df[i].key = links[l].target_key
                  /\ issues_df[i].parent_key # NoneStr
                  /\ issues_df[i].parent_key = links[l].source_key

\* C11 witness: the links of a population with a parented Story are emitted.
C11_Witness ==
    /\ pc = "done"
    /\ \E l \in 1..Len(links) : links[l].link_type = "Epic-Story"
    /\ \E i \in 1..Len(issues_df) :
          issues_df[i].issuetype = "Story" /\ issues_df[i].parent_key # NoneStr

\* C12: every Issue that has a resolved_date has it on or after its
\* created_date.
C12_ResolvedNotBeforeCreated ==
    \A i \in 1..Len(issues_df) :
        ~IsNull(issues_df[i].resolved_date) =>
            issues_df[i].resolved_date >= issues_df[i].created_date

\* C12 witness: a returned Issue with a resolved_date, created before its PI.
C12_Witness ==
    \E i \in 1..Len(issues_df) :
        /\ ~IsNull(issues_df[i].resolved_date)
        /\ \E p \in 1..Len(pis) :
              /\ Contains(issues_df[i].labels, pis[p])
              /\ issues_df[i].created_date < pi_dates(pis[p])[1]

\* C13: every Issue whose status is not Done has a null resolved_date.
C13_NotDoneNotResolved ==
    \A i \in 1..Len(issues_df) :
        issues_df[i].status # "Done" => IsNull(issues_df[i].resolved_date)

\* C13 witness: a returned population with a resolved Done issue and an
\* issue that is not Done.
C13_Witness ==
    /\ \E i \in 1..Len(issues_df) :
          issues_df[i].status = "Done" /\ ~IsNull(issues_df[i].resolved_date)
    /\ \E i \in 1..Len(issues_df) :
          issues_df[i].status # "Done" /\ issues_df[i].resolved_date = NaT

\* C14: the labels of every Issue hold exactly one PI tag, and it is one of
\* the configured Program Increments.
C14_OnePiTag ==
    \A i \in 1..Len(issues_df) :
        LET tags == PiTags(issues_df[i].labels)
        IN /\ Len(tags) = 1
           /\ \E p \in 1..Len(pis) : tags[1] = pis[p]

\* C14 witness: a returned Issue with five labels, and one of each other PI.
C14_Witness ==
    /\ \E i \in 1..Len(issues_df) : Len(Split(issues_df[i].labels, ", ")) = 5
    /\ \A p \in 1..Len(pis) :
          \E i \in 1..Len(issues_df) : Contains(issues_df[i].labels, pis[p])

\* C15: the status entries of an issue are fixed by its final status: To Do
\* has 1, In Progress 2 ((null -> To Do), (To Do -> In Progress)), In Review
\* 3, Done 4 and Blocked 3 (To Do, In Progress, Blocked), each entry leading
\* from the status before it.
C15_StatusEntriesByFinalStatus ==
    \A i \in 1..Len(issues_df) :
        Logged(i) =>
            LET entries == StatusEntriesOf(issues_df[i].key)
                status == issues_df[i].status
                flow == CASE status = "To Do" -> <<"To Do">>
                          [] status = "In Progress" -> <<"To Do", "In Progress">>
                          [] status = "In Review" -> <<"To Do", "In Progress", "In Review">>
                          [] status = "Done" ->
                                <<"To Do", "In Progress", "In Review", "Done">>
                          [] status = "Blocked" -> <<"To Do", "In Progress", "Blocked">>
            IN /\ Len(entries) = Len(flow)
               /\ \A k \in 1..Len(flow) :
                      /\ entries[k].to_value = flow[k]
                      /\ entries[k].from_value = IF k = 1 THEN NoneStr ELSE flow[k - 1]

\* C15 witness: the changelog of a population with a Blocked, an In Progress
\* and a Done issue.
C15_Witness ==
    /\ pc = "done"
    /\ \A st \in {"Blocked", "In Progress", "Done"} :
          \E i \in 1..Len(issues_df) : issues_df[i].status = st

\* C16 (as claimed): a generation with a non-positive count for an issue
\* type returns no records.
C16_NonPositiveCountIsError ==
    (\E k \in 1..4 : counts[k] <= 0) => ~(Returned /\ Len(issues_df) > 0)

\* C17: a non-null parent_key occurs only on Stories, and it is the key of
\* a Feature earlier in the population whose PI tag is the Story's PI tag.
C17_ParentIsSamePIFeature ==
    \A i \in 1..Len(issues_df) :
        issues_df[i].parent_key # NoneStr =>
            /\ issues_df[i].issuetype = "Story"
            /\ \E j \in 1..(i - 1) :
                  /\ issues_df[j].issuetype = "Feature"
                  /\ issues_df[j].key = issues_df[i].parent_key
                  /\ PiTags(issues_df[j].labels) = PiTags(issues_df[i].labels)

\* C17 witness: a Story with a parent, in a population whose two Features
\* are of different PIs.
C17_Witness ==
    /\ \E i \in 1..Len(issues_df) : issues_df[i].parent_key # NoneStr
    /\ Len(features) = 2
    /\ PiTags(features[1].labels) # PiTags(features[2].labels)

\* the status entries to Done of the Features tagged with pi
DoneTransitions(pi) ==
    {e \in 1..Len(changelog) :
        /\ changelog[e].field = "status"
        /\ changelog[e].to_value = "Done"
        /\ IssueOf(changelog[e].issue_key).issuetype = "Feature"
        /\ Contains(IssueOf(changelog[e].issue_key).labels, pi)}

\* the Features tagged with pi
Planned(pi) ==
    {i \in 1..Len(issues_df) :
        issues_df[i].issuetype = "Feature" /\ Contains(issues_df[i].labels, pi)}

\* C18: an issue has at most one status entry to Done, and for every PI the
\* Done transitions of the Features tagged with it are no more than those
\* Features.
C18_BurnupWithinPlanned ==
    /\ \A i \in 1..Len(issues_df) :
          Len(SelectSeq(StatusEntriesOf(issues_df[i].key),
                        LAMBDA e : e.to_value = "Done")) <= 1
    /\ \A p \in 1..Len(pis) :
          Cardinality(DoneTransitions(pis[p])) <= Cardinality(Planned(pis[p]))

\* C18 witness: the changelog of two Features of one PI, one Done and one
\* not.
C18_Witness ==
    /\ pc = "done"
    /\ \E p \in 1..Len(pis) :
          /\ Cardinality(Planned(pis[p])) = 2
          /\ Cardinality(DoneTransitions(pis[p])) = 1

\* the window [start, end] of the PI an issue is tagged with
PiWindow(issue) == pi_dates(PiTags(issue.labels)[1])

\* C19 (as claimed): a Done issue created at least one day before the end
\* of its PI has a resolved_date, 1 to min(30, end - created_date) days after
\* its created_date; resolved_date is null only when end - created_date < 1.
C19_ResolvedWheneverRangeNonEmpty ==
    \A i \in 1..Len(issues_df) :
        issues_df[i].status = "Done" =>
            LET created == issues_df[i].created_date
                resolved == issues_df[i].resolved_date
                room == PiWindow(issues_df[i])[2] - created
            IN /\ room >= 1 =>
                     /\ ~IsNull(resolved)
                     /\ resolved - created >= 1
                     /\ resolved - created <= Min(30, room)
               /\ IsNull(resolved) => room < 1

\* C20 (as claimed): every status entry after the creation entry, other than
\* the Done entry of an issue with a resolved_date, is dated at least one
\* day after the entry before it and no later than the ceiling: the
\* resolved_date if the issue has one, else 30 days after the entry before.
C20_StepWithinCeiling ==
    \A i \in 1..Len(issues_df) :
        Logged(i) =>
            LET entries == StatusEntriesOf(issues_df[i].key)
                resolved == issues_df[i].resolved_date
            IN \A k \in 2..Len(entries) :
                  ~(entries[k].to_value = "Done" /\ ~IsNull(resolved)) =>
                      /\ entries[k].changed_date >= entries[k - 1].changed_date + 1
                      /\ entries[k].changed_date <=
                            (IF ~IsNull(resolved) THEN resolved
                             ELSE entries[k - 1].changed_date + 30)

\* the to_values of a sequence of entries
ToValues(entries) == [k \in 1..Len(entries) |-> entries[k].to_value]

\* C21: the status entries of an issue form a chain: the first leads from
\* null to To Do at the issue's created_date, every later one leads from the
\* to_value of the entry before it, and the to_values are a prefix of
\* [To Do, In Progress, In Review, Done] or [To Do, In Progress, Blocked].
C21_StatusEntriesChain ==
    \A i \in 1..Len(issues_df) :
        Logged(i) =>
            LET entries == StatusEntriesOf(issues_df[i].key)
                canonical == <<"To Do", "In Progress", "In Review", "Done">>
            IN /\ Len(entries) >= 1
               /\ entries[1].from_value = NoneStr
               /\ entries[1].to_value = "To Do"
               /\ entries[1].changed_date = issues_df[i].created_date
               /\ \A k \in 2..Len(entries) :
                      entries[k].from_value = entries[k - 1].to_value
               /\ \/ /\ Len(entries) <= Len(canonical)
                     /\ ToValues(entries) = SubSeq(canonical, 1, Len(entries))
                  \/ ToValues(entries) = <<"To Do", "In Progress", "Blocked">>

\* C21 witness: the changelog of a Blocked issue and of an In Review issue
\* created before its PI.
C21_Witness ==
    /\ \E i \in 1..Len(issues_df) : Logged(i) /\ issues_df[i].status = "Blocked"
    /\ \E i \in 1..Len(issues_df) :
          /\ Logged(i)
          /\ issues_df[i].status = "In Review"
          /\ issues_df[i].created_date < PiWindow(issues_df[i])[1]

\* C23 (as claimed): the resolved_date of every Done issue that has one lies
\* within the window of the PI named in its labels.
C23_ResolvedWithinPI ==
    \A i \in 1..Len(issues_df) :
        (issues_df[i].status = "Done" /\ ~IsNull(issues_df[i].resolved_date)) =>
            /\ PiWindow(issues_df[i])[1] <= issues_df[i].resolved_date
            /\ issues_df[i].resolved_date <= PiWindow(issues_df[i])[2]

\* C28: the created_date of every Issue is no earlier than 60 days before
\* the start of the PI named in its labels and no later than that PI's end.
C28_CreatedWithinReach ==
    \A i \in 1..Len(issues_df) :
        /\ PiWindow(issues_df[i])[1] - 60 <= issues_df[i].created_date
        /\ issues_df[i].created_date <= PiWindow(issues_df[i])[2]

\* C28 witness: a population with an Issue created within a day of its
\* PI's end and one created at least 50 days before its PI.
C28_Witness ==
    /\ \E i \in 1..Len(issues_df) :
          issues_df[i].created_date >= PiWindow(issues_df[i])[2] - 1
    /\ \E i \in 1..Len(issues_df) :
          issues_df[i].created_date <= PiWindow(issues_df[i])[1] - 50

\* the labels entries of one issue
LabelEntriesOf(key) == SelectSeq(changelog, LAMBDA e : e.issue_key = key /\ e.field = "labels")

\* C24: once generate_issues has returned, no step of generate_changelog or
\* of generate_issue_links changes any field of any Issue of the population.
C24_IssuesUnchanged ==
    [][pc # "issues" => issues_df' = issues_df]_vars

\* C24 witness: both stages are over, a labels entry moved an issue from
\* PI-2024-Q3 to PI-2024-Q4, and the Issue still carries PI-2024-Q3.
C24_Witness ==
    /\ pc = "done"
    /\ \E e \in 1..Len(changelog) :
          /\ changelog[e].field = "labels"
          /\ Contains(changelog[e].to_value, "PI-2024-Q4")
          /\ Contains(IssueOf(changelog[e].issue_key).labels, "PI-2024-Q3")
          /\ ~Contains(IssueOf(changelog[e].issue_key).labels, "PI-2024-Q4")

\* C25: an issue has at most one labels entry; its from_value is the issue's
\* labels, its changed_date is 1 to 14 days after created_date, its to_value
\* is from_value with PI-2024-Q3 replaced by PI-2024-Q4 (only when from_value
\* contains PI-2024-Q3) or from_value followed by ', urgent', and to_value
\* holds exactly one PI tag.
C25_LabelEntry ==
    \A i \in 1..Len(issues_df) :
        LET entries == LabelEntriesOf(issues_df[i].key)
        IN /\ Len(entries) <= 1
           /\ \A k \in 1..Len(entries) :
                  LET e == entries[k]
                  IN /\ e.from_value = issues_df[i].labels
                     /\ e.changed_date - issues_df[i].created_date \in 1..14
                     /\ \/ /\ Contains(e.from_value, "PI-2024-Q3")
                           /\ e.to_value = Replace(e.from_value, "PI-2024-Q3", "PI-2024-Q4")
                        \/ e.to_value = e.from_value \o ", urgent"
                     /\ Len(PiTags(e.to_value)) = 1

\* C25 witness: a changelog with a labels entry that moved the PI tag and
\* one that appended urgent.
C25_Witness ==
    /\ \E e \in 1..Len(changelog) :
          /\ changelog[e].field = "labels"
          /\ Contains(changelog[e].from_value, "PI-2024-Q3")
          /\ Contains(changelog[e].to_value, "PI-2024-Q4")
    /\ \E e \in 1..Len(changelog) :
          /\ changelog[e].field = "labels"
          /\ changelog[e].to_value = changelog[e].from_value \o ", urgent"

\* the Feature the dependency loop is at is selected (random() < 0.3) and no
\* other Feature lacks its ART tag
SelectedWithoutTarget ==
    /\ pc = "dependency"
    /\ cursor <= Len(features)
    /\ Chance(rng, 30)
    /\ Len(OtherFeatures(features[cursor], FeatureArt(features[cursor].labels))) = 0

\* C26: the step of the dependency loop on a selected Feature that has no
\* Feature of another ART to point to emits no link and goes on to the next
\* Feature without error.
C26_NoTargetNoLink ==
    [][SelectedWithoutTarget =>
          /\ links' = links
          /\ pc' = "dependency"
          /\ cursor' = cursor + 1]_vars

\* C26 witness: the loop has passed the first of two Features of one ART and
\* is at the second, which is selected.
C26_Witness ==
    /\ SelectedWithoutTarget
    /\ cursor = 2
    /\ Len(features) = 2

\* C27: every changelog entry is of an Issue of the population and every
\* Issue has a status entry; a Dependency link joins two distinct Features
\* of the population; an Epic-Story link leads from a Feature to a Story of
\* the population.
C27_References ==
    LET TypeOf(key) ==
            IF \E i \in 1..Len(issues_df) : issues_df[i].key = key
            THEN IssueOf(key).issuetype ELSE "none"
    IN /\ \A e \in 1..Len(changelog) : TypeOf(changelog[e].issue_key) # "none"
       /\ \A i \in 1..Len(issues_df) :
             Logged(i) => Len(StatusEntriesOf(issues_df[i].key)) >= 1
       /\ \A l \in 1..Len(links) :
             /\ links[l].link_type = "Dependency" =>
                   /\ TypeOf(links[l].source_key) = "Feature"
                   /\ TypeOf(links[l].target_key) = "Feature"
                   /\ links[l].source_key # links[l].target_key
             /\ links[l].link_type = "Epic-Story" =>
                   /\ TypeOf(links[l].source_key) = "Feature"
                   /\ TypeOf(links[l].target_key) = "Story"
             /\ links[l].link_type \in {"Dependency", "Epic-Story"}

\* C27 witness: a complete run with a link of each type.
C27_Witness ==
    /\ pc = "done"
    /\ \E l \in 1..Len(links) : links[l].link_type = "Dependency"
    /\ \E l \in 1..Len(links) : links[l].link_type = "Epic-Story"
    /\ Len(changelog) > Len(issues_df)

\* C29: the labels of every Issue start with its PI tag, then one ART tag of
\* the roster, the only ART tag; a Feature has one OBJ tag, OBJ-1 to OBJ-5,
\* as its third tag, and no other issue has an OBJ tag.
C29_LabelLayout ==
    \A i \in 1..Len(issues_df) :
        LET parts == Split(issues_df[i].labels, ", ")
            With(prefix) == {k \in 1..Len(parts) : StartsWith(parts[k], prefix)}
        IN /\ Len(parts) >= 2
           /\ \E p \in 1..Len(pis) : parts[1] = pis[p]
           /\ \E a \in 1..Len(arts) : parts[2] = "ART-" \o arts[a]
           /\ With("ART-") = {2}
           /\ IF issues_df[i].issuetype = "Feature"
              THEN /\ With("OBJ-") = {3}
                   /\ \E n \in 1..5 : parts[3] = "OBJ-" \o ToString(n)
              ELSE With("OBJ-") = {}

\* C29 witness: a population with a Feature and an issue of another type
\* that has a component label.
C29_Witness ==
    /\ \E i \in 1..Len(issues_df) : issues_df[i].issuetype = "Feature"
    /\ \E i \in 1..Len(issues_df) :
          /\ issues_df[i].issuetype # "Feature"
          /\ Len(Split(issues_df[i].labels, ", ")) >= 3

\* C30: no Issue is a Sub-task: every issue type is Feature, Story, Bug or
\* Task, and no key has the SUB or the ISSUE prefix.
C30_NoSubTask ==
    \A i \in 1..Len(issues_df) :
        /\ issues_df[i].issuetype \in {"Feature", "Story", "Bug", "Task"}
        /\ ~StartsWith(issues_df[i].key, "SUB-")
        /\ ~StartsWith(issues_df[i].key, "ISSUE-")

\* C30 witness: a returned population with an Issue of each of the four
\* types.
C30_Witness ==
    \A t \in {"Feature", "Story", "Bug", "Task"} :
        \E i \in 1..Len(issues_df) : issues_df[i].issuetype = t

\* C22 (as claimed): a run can emit two Dependency links with the same
\* source_key and target_key: among the runs of the seeds and counts of
\* Init, taken one after another, one emits such a pair, so the runs are
\* not all over without one.
C22_DuplicateDependencyEmitted ==
    ~(LastGenerator /\ pc \in {"done", "error"} /\ ~DuplicateDependency)

\* C22 (amended): no two Dependency links of a run have the same
\* source_key: a Feature is the source of at most one, so the links never
\* repeat a (source_key, target_key) pair.
C22_OneDependencyPerSource ==
    \A i, j \in 1..Len(links) :
        (i # j /\ links[i].link_type = "Dependency" /\ links[j].link_type = "Dependency")
            => links[i].source_key # links[j].source_key

\* C22 witness: a run has emitted two Dependency links.
C22_Witness ==
    Cardinality({l \in 1..Len(links) : links[l].link_type = "Dependency"}) >= 2

====
